---- MODULE Spec2Model ----
(***************************************************************************)
(* EatSense home screen (frontend/screens/HomeScreen.js), filter screen    *)
(* (frontend/screens/FilterScreen.js) and the price display of the list    *)
(* view (components/StallListView.js with budget display) as state         *)
(* machines.                                                               *)
(*                                                                         *)
(* Units.  Coordinates are integers counting arc units of 50 m on the      *)
(* sphere of radius 6371 km (one unit is about 0.00045 degrees), relative  *)
(* to an origin 500 m south of the map's default center in Singapore       *)
(* (latitude 1.35 degrees, where cos(latitude)^2 = 0.9994).  Distances and *)
(* radii are integers in metres.  A stall list is identified by the query  *)
(* whose response carried it.                                              *)
(***************************************************************************)
EXTENDS Integers, Sequences, FiniteSets, TLC

VARIABLES
    location,              \* HomeScreen: useState(null)
    errorMsg,              \* HomeScreen: useState(null)
    stalls,                \* HomeScreen: useState([])
    loading,               \* HomeScreen: useState(true)
    initialRegion,         \* HomeScreen: useState(null), the anchor
    currentRegion,         \* HomeScreen: useState(null), the viewport
    showSearchAreaButton,  \* HomeScreen: useState(false)
    filters,               \* HomeScreen: useState({... radius: 2})
    mountPc,               \* position of the mount effect's async function
    issued,                \* number of requests sent to /stalls so far
    lastRadius,            \* radius parameter of the latest request sent
    inflight,              \* the requests sent whose response is pending
    screen,                \* FilterScreen: "none", "open" or "closing"
    cuisineType,           \* FilterScreen: useState(....cuisine_type)
    priceRange,            \* FilterScreen: useState(currentFilters.price_range)
    dietary,               \* FilterScreen: useState(currentFilters.dietary)
    radius,                \* FilterScreen: useState(currentFilters.radius || 2)
    filterOptions,         \* FilterScreen: useState({cuisine_types: [], ...})
    fsLoading,             \* FilterScreen: loading, useState(true)
    fsError,               \* FilterScreen: error, useState(null)
    fsInflight,            \* FilterScreen: requests to /filters pending
    itemPriceRange,        \* StallListView: item.attributes?.price_range
    itemView               \* StallListView: what renderStallItem shows of it

vars == <<location, errorMsg, stalls, loading, initialRegion,
          currentRegion, showSearchAreaButton, filters, mountPc, issued,
          lastRadius, inflight, screen, cuisineType, priceRange, dietary,
          radius,
          filterOptions, fsLoading, fsError, fsInflight,
          itemPriceRange, itemView>>

homeVars == <<location, errorMsg, stalls, loading, initialRegion,
              currentRegion, showSearchAreaButton, filters, mountPc, issued,
              lastRadius, inflight>>

filterVars == <<screen, cuisineType, priceRange, dietary, radius,
                filterOptions, fsLoading, fsError, fsInflight>>

listVars == <<itemPriceRange, itemView>>

----------------------------------------------------------------------------
(* Bounds of the model *)

MaxQueries == 3        \* requests to /stalls in one run
MaxPanSteps == 3       \* viewport centers up to MaxPanSteps * 500 m north
MaxFilterInflight == 1 \* requests to /filters pending at one time
MaxPrice == 30         \* prices written in a price range, in dollars
MaxSpanSteps == 2      \* viewport spans up to MaxSpanSteps * 600 m
MaxDriftSteps == 10    \* viewport centers up to MaxDriftSteps * 250 m north

----------------------------------------------------------------------------
(* Values *)

Null == [null |-> TRUE]          \* null for object-valued state
NoString == "null"               \* null for string-valued state

Latitudes == {10 * k : k \in 0..MaxPanSteps}   \* 500 m of arc apart
Longitudes == {0}
InitialDelta == 44               \* latitudeDelta: 0.02 degrees, in arc units
Deltas == {12, InitialDelta}

Regions == {[latitude |-> lat, longitude |-> lon,
            latitudeDelta |-> d, longitudeDelta |-> d] :
              lat \in Latitudes, lon \in Longitudes, d \in Deltas}

Fixes == {[latitude |-> 0, longitude |-> 0]}

DefaultMapLatitude == 10         \* latitude: 1.3521, 500 m north of the origin
DefaultMapLongitude == 0         \* longitude: 103.8198, that of the origin
DefaultMapDelta == 220           \* latitudeDelta: 0.1 degrees, in arc units

DefaultRadius == 2000            \* radius: 2
SliderMin == 500                 \* minimumValue={0.5}
SliderMax == 5000                \* maximumValue={5}
SliderStep == 500                \* step={0.5}
SliderValues == {SliderMin + k * SliderStep :
                   k \in 0..((SliderMax - SliderMin) \div SliderStep)}
SliderPicks == {v \in SliderValues : v = SliderMin}

PermissionDeniedMsg == "Permission to access location was denied"
FailedMsg == "Failed to load stalls. Please try again."

(* What the backend can answer to one request *)
Outcomes == {"ok", "http_json", "http_nonjson", "network"}

FailureOutcomes == {"http_nonjson", "network"}   \* the await throws

(* Options served by a /filters that has none to offer *)
ServedOptions == [cuisine_types |-> <<>>,
                  price_ranges |-> <<>>,
                  dietary_requirements |-> <<>>]
(* Options served by a /filters that has all three kinds of them *)
FullOptions == [cuisine_types |-> <<"Western">>,
                price_ranges |-> <<"5-10">>,
                dietary_requirements |-> <<"Halal">>]
NoOptions == [cuisine_types |-> <<>>, price_ranges |-> <<>>,
              dietary_requirements |-> <<>>]

Omitted == "<omitted>"           \* a URL parameter that was not appended
EmptyStalls == [kind |-> "initial", seq |-> 0]   \* useState([])

Range(s) == {s[i] : i \in 1..Len(s)}

----------------------------------------------------------------------------
(* Geometry *)

MetresPerUnit == 50

RECURSIVE isqrtBetween(_, _, _)
isqrtBetween(x, lo, hi) ==
    IF lo >= hi THEN lo
    ELSE LET mid == (lo + hi + 1) \div 2
         IN  IF mid * mid <= x THEN isqrtBetween(x, mid, hi)
             ELSE isqrtBetween(x, lo, mid - 1)

(* The integer part of Math.sqrt *)
isqrt(x) == isqrtBetween(x, 0, 20000)

(* Math.sqrt, rounded up to an integer: a distance is compared with whole   *)
(* numbers of metres only, and d > n exactly when its ceiling is > n        *)
sqrt(x) ==
    LET root == isqrt(x)
    IN  IF root * root = x THEN root ELSE root + 1

R == 6371                        \* radius of the earth in km
LatitudeOfOrigin == 2997         \* 1.3521 degrees less 500 m, in arc units

(* Math.cos(deg2rad(lat)) in ten-thousandths, by the series                 *)
(* 1 - x^2/2 + x^4/24 - x^6/720 with x in ten-thousandths of a radian       *)
cos(lat) ==
    LET x == ((LatitudeOfOrigin + lat) * MetresPerUnit * 10) \div R
        x2 == (x * x) \div 10000
        x4 == (x2 * x2) \div 10000
        x6 == (x4 * x2) \div 10000
    IN  10000 - x2 \div 2 + x4 \div 24 - x6 \div 720

(* calculateDistance, were the cosine of lat1 taken twice *)
calculateDistanceFromLat1(lat1, lon1, lat2, lon2) ==
    LET dLat == lat2 - lat1
        dLon == lon2 - lon1
        a == dLat * dLat
               + (((cos(lat1) * cos(lat1)) \div 10000) * dLon * dLon)
                   \div 10000
    IN  sqrt(MetresPerUnit * MetresPerUnit * a)

(* calculateDistance: the haversine distance, in metres, rounded up.  For   *)
(* arcs of a few kilometres sin(x) = x and atan2(sqrt(a), sqrt(1-a)) =      *)
(* sqrt(a) to within a metre, so that with the angles in arc units          *)
(* a = (dLat^2 + cos(lat1) * cos(lat2) * dLon^2) / 4 and R * c = 2 sqrt(a). *)
calculateDistance(lat1, lon1, lat2, lon2) ==
    LET dLat == lat2 - lat1
        dLon == lon2 - lon1
        a == dLat * dLat
               + (((cos(lat1) * cos(lat2)) \div 10000) * dLon * dLon)
                   \div 10000
    IN  sqrt(MetresPerUnit * MetresPerUnit * a)

(* isOutsideSearchRadius, were the comparison not strict *)
isOutsideSearchRadiusOfInclusive(initial, current, flt) ==
    IF initial = Null \/ current = Null THEN FALSE
    ELSE LET distance == calculateDistance(initial.latitude, initial.longitude,
                                           current.latitude, current.longitude)
         IN  2 * distance >= flt.radius

(* isOutsideSearchRadius as a function of what its closure holds *)
isOutsideSearchRadiusOf(initial, current, flt) ==
    IF initial = Null \/ current = Null THEN FALSE
    ELSE LET distance == calculateDistance(initial.latitude, initial.longitude,
                                           current.latitude, current.longitude)
         IN  2 * distance > flt.radius

(* isOutsideSearchRadius(), called in a handler of the current render *)
isOutsideSearchRadius ==
    isOutsideSearchRadiusOf(initialRegion, currentRegion, filters)

Max(a, b) == IF a >= b THEN a ELSE b

(* Math.ceil(x / y) for x >= 0, y > 0 *)
CeilDiv(x, y) == (x + y - 1) \div y

(* calculateRequiredRadius, were the minimum of 1 km not taken *)
calculateRequiredRadiusOfUnclamped(current, flt) ==
    IF current = Null THEN flt.radius
    ELSE LET latDelta == current.latitudeDelta \div 2
             lonDelta == current.longitudeDelta \div 2
             distance == calculateDistance(current.latitude, current.longitude,
                                           current.latitude + latDelta,
                                           current.longitude + lonDelta)
         IN  CeilDiv(distance * 2, 500) * 500

(* calculateRequiredRadius, were the distance taken to the top edge of the  *)
(* viewport and not to its corner                                           *)
calculateRequiredRadiusOfTopEdge(current, flt) ==
    IF current = Null THEN flt.radius
    ELSE LET latDelta == current.latitudeDelta \div 2
             distance == calculateDistance(current.latitude, current.longitude,
                                           current.latitude + latDelta,
                                           current.longitude)
             requiredRadius == CeilDiv(distance * 2, 500) * 500
         IN  Max(requiredRadius, 1000)

(* calculateRequiredRadius as a function of what its closure holds *)
calculateRequiredRadiusOf(current, flt) ==
    IF current = Null THEN flt.radius
    ELSE LET latDelta == current.latitudeDelta \div 2
             lonDelta == current.longitudeDelta \div 2
             distance == calculateDistance(current.latitude, current.longitude,
                                           current.latitude + latDelta,
                                           current.longitude + lonDelta)
             requiredRadius == CeilDiv(distance * 2, 500) * 500
         IN  Max(requiredRadius, 1000)

calculateRequiredRadius == calculateRequiredRadiusOf(currentRegion, filters)

----------------------------------------------------------------------------
(* StallListView (components/StallListView.js with budget display).  A      *)
(* string is the sequence of its characters; a JavaScript value is null,    *)
(* undefined or a string; a number is NaN or a count of halves, so that the *)
(* mean of two integers is exact.                                           *)

JsNull == [type |-> "null"]
JsUndefined == [type |-> "undefined"]
JsString(chars) == [type |-> "string", chars |-> chars]

NaN == [nan |-> TRUE, halves |-> 0]
Number(n) == [nan |-> FALSE, halves |-> 2 * n]

DigitChars == <<"0", "1", "2", "3", "4", "5", "6", "7", "8", "9">>

IsDigit(c) == c \in Range(DigitChars)

DigitValue(c) == CHOOSE d \in 0..9 : DigitChars[d + 1] = c

(* The decimal numeral of n >= 0, as the backend writes a price *)
RECURSIVE Numeral(_)
Numeral(n) ==
    IF n < 10 THEN <<DigitChars[n + 1]>>
    ELSE Numeral(n \div 10) \o <<DigitChars[(n % 10) + 1]>>

UnknownText == <<"U", "n", "k", "n", "o", "w", "n">>
PriceUnknownText == <<"P", "r", "i", "c", "e", ":", " ">> \o UnknownText
BudgetText == <<"B", "u", "d", "g", "e", "t", ":", " ", "$">>

(* String.prototype.includes, for a one-character search string *)
includes(chars, c) == \E i \in 1..Len(chars) : chars[i] = c

(* String.prototype.indexOf, counted from 1; 0 when c does not occur *)
indexOf(chars, c) ==
    IF includes(chars, c)
    THEN CHOOSE i \in 1..Len(chars) :
           chars[i] = c /\ \A j \in 1..(i - 1) : chars[j] # c
    ELSE 0

(* String.prototype.split, for a one-character separator *)
RECURSIVE split(_, _)
split(chars, sep) ==
    LET i == indexOf(chars, sep)
    IN  IF i = 0 THEN <<chars>>
        ELSE <<SubSeq(chars, 1, i - 1)>>
               \o split(SubSeq(chars, i + 1, Len(chars)), sep)

(* String.prototype.replace(c, ''): the first occurrence of c is removed *)
replace(chars, c) ==
    LET i == indexOf(chars, c)
    IN  IF i = 0 THEN chars
        ELSE SubSeq(chars, 1, i - 1) \o SubSeq(chars, i + 1, Len(chars))

(* The value of the longest prefix of chars made of digits, after acc *)
RECURSIVE parseDigits(_, _)
parseDigits(chars, acc) ==
    IF chars = <<>> \/ ~IsDigit(Head(chars)) THEN acc
    ELSE parseDigits(Tail(chars), 10 * acc + DigitValue(Head(chars)))

RECURSIVE trimStart(_)
trimStart(chars) ==
    IF chars # <<>> /\ Head(chars) = " " THEN trimStart(Tail(chars))
    ELSE chars

(* parseInt(string, 10): leading white space is skipped, a sign is read,    *)
(* then the digits up to the first character that is not one; NaN when      *)
(* there is no digit to read                                                *)
parseInt(chars) ==
    LET trimmed == trimStart(chars)
        signed == trimmed # <<>> /\ Head(trimmed) \in {"-", "+"}
        sign == IF signed /\ Head(trimmed) = "-" THEN -1 ELSE 1
        body == IF signed THEN Tail(trimmed) ELSE trimmed
    IN  IF body = <<>> \/ ~IsDigit(Head(body)) THEN NaN
        ELSE Number(sign * parseDigits(body, 0))

(* (min + max) / 2 *)
Mean(min, max) ==
    IF min.nan \/ max.nan THEN NaN
    ELSE [nan |-> FALSE, halves |-> (min.halves + max.halves) \div 2]

(* x < n for a number x and an integer literal n: false when x is NaN *)
LessThan(x, n) == ~x.nan /\ x.halves < 2 * n

(* !priceRange || priceRange === 'Unknown', were only null and undefined    *)
(* taken for missing                                                        *)
isUnknownNullOnly(price) ==
    price.type \in {"null", "undefined"}

(* !priceRange || priceRange === 'Unknown' *)
isUnknown(price) ==
    \/ price.type \in {"null", "undefined"}
    \/ price.chars = <<>>
    \/ price.chars = UnknownText

(* renderPriceRange, were the '+' left out of the text of a "30+" *)
renderPriceRangeWithoutPlus(price) ==
    IF isUnknown(price) THEN PriceUnknownText
    ELSE IF includes(price.chars, "-")
    THEN BudgetText \o price.chars
    ELSE IF includes(price.chars, "+")
    THEN BudgetText \o replace(price.chars, "+")
    ELSE BudgetText \o price.chars

(* renderPriceRange: the text of the element it returns *)
renderPriceRange(price) ==
    IF isUnknown(price) THEN PriceUnknownText
    ELSE IF includes(price.chars, "-")
    THEN BudgetText \o price.chars
    ELSE IF includes(price.chars, "+")
    THEN BudgetText \o price.chars
    ELSE BudgetText \o price.chars

(* The dollar sign level, were each limit part of the lower level *)
dollarSignsInclusive(average) ==
    IF ~average.nan /\ average.halves <= 2 * 5 THEN "$"
    ELSE IF ~average.nan /\ average.halves <= 2 * 15 THEN "$$"
    ELSE IF ~average.nan /\ average.halves <= 2 * 25 THEN "$$$"
    ELSE "$$$$"

(* The dollar sign level of an average price *)
dollarSigns(average) ==
    IF LessThan(average, 5) THEN "$"
    ELSE IF LessThan(average, 15) THEN "$$"
    ELSE IF LessThan(average, 25) THEN "$$$"
    ELSE "$$$$"

(* The average price renderPriceIndicator extracts *)
avgPrice(chars) ==
    IF includes(chars, "-")
    THEN LET parts == split(chars, "-")
             min == parseInt(parts[1])
             max == parseInt(parts[2])
         IN  Mean(min, max)
    ELSE IF includes(chars, "+")
    THEN parseInt(replace(chars, "+"))
    ELSE parseInt(chars)

(* renderPriceIndicator: the text of the element it returns, or null *)
renderPriceIndicator(price) ==
    IF isUnknown(price) THEN NoString
    ELSE dollarSigns(avgPrice(price.chars))

NotRendered == [rendered |-> FALSE]

(* The price ranges an item can carry *)
Prices == 0..MaxPrice

WellFormedPriceRanges ==
    {JsString(Numeral(v)) : v \in Prices}
      \cup {JsString(Numeral(v) \o <<"+">>) : v \in Prices}
      \cup {JsString(Numeral(min) \o <<"-">> \o Numeral(max)) :
              min \in Prices, max \in Prices}

MissingPriceRanges ==
    {JsNull, JsUndefined, JsString(<<>>), JsString(UnknownText)}

MalformedPriceRanges ==
    {JsString(<<"a", "b", "c">>), JsString(<<"x", "-", "y">>),
     JsString(<<"-", "5">>), JsString(<<"+">>), JsString(<<"5", "-">>),
     JsString(<<"a", "+">>), JsString(<<"-">>)}

PriceRanges ==
    WellFormedPriceRanges \cup MissingPriceRanges \cup MalformedPriceRanges

(* renderStallItem, as far as the price is concerned *)
renderStallItem ==
    /\ itemView = NotRendered
    /\ itemView' = [rendered |-> TRUE,
                    priceIndicator |-> renderPriceIndicator(itemPriceRange),
                    priceText |-> renderPriceRange(itemPriceRange)]
    /\ UNCHANGED itemPriceRange
    /\ UNCHANGED homeVars
    /\ UNCHANGED filterVars

----------------------------------------------------------------------------
(* HomeScreen *)

(* Which of the three returns of the render function is on screen *)
HomeView ==
    IF loading THEN "loading"
    ELSE IF errorMsg # NoString THEN "error"
    ELSE "main"

(* The state after construction, were the affordance shown from the start *)
InitShowingButton ==
    /\ location = Null
    /\ errorMsg = NoString
    /\ stalls = EmptyStalls
    /\ loading = TRUE
    /\ initialRegion = Null
    /\ currentRegion = Null
    /\ showSearchAreaButton = TRUE
    /\ filters = [cuisine_type |-> NoString, price_range |-> NoString,
                  dietary |-> NoString, radius |-> DefaultRadius]
    /\ mountPc = "permission"
    /\ issued = 0
    /\ lastRadius = 0
    /\ inflight = {}
    /\ screen = "none"
    /\ cuisineType = NoString
    /\ priceRange = NoString
    /\ dietary = NoString
    /\ radius = DefaultRadius
    /\ filterOptions = NoOptions
    /\ fsLoading = TRUE
    /\ fsError = NoString
    /\ fsInflight = 0
    /\ itemPriceRange = JsUndefined
    /\ itemView = NotRendered

Init ==
    /\ location = Null
    /\ errorMsg = NoString
    /\ stalls = EmptyStalls
    /\ loading = TRUE
    /\ initialRegion = Null
    /\ currentRegion = Null
    /\ showSearchAreaButton = FALSE
    /\ filters = [cuisine_type |-> NoString, price_range |-> NoString,
                  dietary |-> NoString, radius |-> DefaultRadius]
    /\ mountPc = "permission"
    /\ issued = 0
    /\ lastRadius = 0
    /\ inflight = {}
    /\ screen = "none"
    /\ cuisineType = NoString
    /\ priceRange = NoString
    /\ dietary = NoString
    /\ radius = DefaultRadius
    /\ filterOptions = NoOptions
    /\ fsLoading = TRUE
    /\ fsError = NoString
    /\ fsInflight = 0
    /\ itemPriceRange = JsUndefined
    /\ itemView = NotRendered

(* The radius parameter, were useCurrentRadius ignored *)
QueryRadiusIgnoringFlag(useCurrentRadius, flt) == flt.radius

(* The radius parameter of a request *)
QueryRadius(useCurrentRadius, flt) ==
    IF useCurrentRadius THEN flt.radius
    ELSE calculateRequiredRadiusOf(currentRegion, flt)

(* A filter, were it appended to the URL whatever it is *)
QueryParamAlways(value) == value

(* A filter is appended to the URL only when it is truthy *)
QueryParam(value) ==
    IF value = NoString \/ value = "" THEN Omitted ELSE value

(* fetchStalls up to its await: setLoading(true) and the request.  flt is  *)
(* the filters object of the render whose fetchStalls is called.  The      *)
(* fields seq, by, anchorBefore and stallsBefore are not sent: they record *)
(* the order of the requests, who issued this one, and the anchor and the  *)
(* list set when it was called; lastRadius keeps the radius of the latest  *)
(* request.                                                                *)
fetchStalls(latitude, longitude, useCurrentRadius, flt, anchor, by) ==
    /\ issued < MaxQueries
    /\ loading' = TRUE
    /\ issued' = issued + 1
    /\ lastRadius' = QueryRadius(useCurrentRadius, flt)
    /\ inflight' = inflight \cup
                   {[latitude |-> latitude,
                     longitude |-> longitude,
                     radius |-> QueryRadius(useCurrentRadius, flt),
                     cuisine_type |-> QueryParam(flt.cuisine_type),
                     price_range |-> QueryParam(flt.price_range),
                     dietary |-> QueryParam(flt.dietary),
                     seq |-> issued + 1,
                     by |-> by,
                     anchorBefore |-> anchor,
                     stallsBefore |-> stalls]}

(* Mount effect: requestForegroundPermissionsAsync resolves *)
PermissionAnswered(status) ==
    /\ mountPc = "permission"
    /\ IF status # "granted"
       THEN /\ errorMsg' = PermissionDeniedMsg
            /\ loading' = FALSE
            /\ mountPc' = "denied"
       ELSE /\ mountPc' = "position"
            /\ UNCHANGED <<errorMsg, loading>>
    /\ UNCHANGED <<location, stalls, initialRegion, currentRegion,
                   showSearchAreaButton, filters, issued, lastRadius, inflight>>
    /\ UNCHANGED filterVars
    /\ UNCHANGED listVars

(* The mount effect, were setInitialRegion left out of it *)
PositionObtainedWithoutAnchor(coords) ==
    /\ mountPc = "position"
    /\ location' = [coords |-> coords]
    /\ currentRegion' = [latitude |-> coords.latitude,
                         longitude |-> coords.longitude,
                         latitudeDelta |-> InitialDelta,
                         longitudeDelta |-> InitialDelta]
    /\ fetchStalls(coords.latitude, coords.longitude, TRUE, filters,
                   initialRegion, "mount")
    /\ mountPc' = "done"
    /\ UNCHANGED <<errorMsg, stalls, showSearchAreaButton, filters,
                   initialRegion>>
    /\ UNCHANGED filterVars
    /\ UNCHANGED listVars

(* Mount effect: getCurrentPositionAsync resolves *)
PositionObtained(coords) ==
    /\ mountPc = "position"
    /\ location' = [coords |-> coords]
    /\ LET region == [latitude |-> coords.latitude,
                      longitude |-> coords.longitude,
                      latitudeDelta |-> InitialDelta,
                      longitudeDelta |-> InitialDelta]
       IN  /\ initialRegion' = region
           /\ currentRegion' = region
    /\ fetchStalls(coords.latitude, coords.longitude, TRUE, filters,
                   initialRegion', "mount")
    /\ mountPc' = "done"
    /\ UNCHANGED <<errorMsg, stalls, showSearchAreaButton, filters>>
    /\ UNCHANGED filterVars
    /\ UNCHANGED listVars

(* Mount effect: getCurrentPositionAsync rejects; nothing catches it *)
PositionFailed ==
    /\ mountPc = "position"
    /\ mountPc' = "rejected"
    /\ UNCHANGED <<location, errorMsg, stalls, loading,
                   initialRegion, currentRegion, showSearchAreaButton,
                   filters, issued, lastRadius, inflight>>
    /\ UNCHANGED filterVars
    /\ UNCHANGED listVars

(* fetchStalls after its await, for request q *)
Response(q, outcome) ==
    /\ q \in inflight
    /\ inflight' = inflight \ {q}
    /\ IF outcome \in FailureOutcomes
       THEN /\ errorMsg' = FailedMsg
            /\ UNCHANGED <<stalls, showSearchAreaButton>>
       ELSE /\ stalls' = [kind |-> IF outcome = "ok" THEN "list" ELSE "errbody",
                          seq |-> q.seq]
            /\ showSearchAreaButton' = FALSE
            /\ UNCHANGED errorMsg
    /\ loading' = FALSE
    /\ UNCHANGED <<location, initialRegion, currentRegion, filters,
                   mountPc, issued, lastRadius>>
    /\ UNCHANGED filterVars
    /\ UNCHANGED listVars

(* The map is mounted and on top of the navigation stack *)
MapMounted == HomeView = "main" /\ screen = "none"

handleRegionChange(region) ==
    /\ MapMounted
    /\ currentRegion' = region
    /\ IF isOutsideSearchRadius /\ ~showSearchAreaButton
       THEN showSearchAreaButton' = TRUE
       ELSE IF ~isOutsideSearchRadius /\ showSearchAreaButton
       THEN showSearchAreaButton' = FALSE
       ELSE UNCHANGED showSearchAreaButton
    /\ UNCHANGED <<location, errorMsg, stalls, loading,
                   initialRegion, filters, mountPc, issued, lastRadius,
                   inflight>>
    /\ UNCHANGED filterVars
    /\ UNCHANGED listVars

handleSearchAreaPress ==
    /\ MapMounted
    /\ showSearchAreaButton          \* pointerEvents 'auto'
    /\ IF currentRegion # Null
       THEN /\ fetchStalls(currentRegion.latitude, currentRegion.longitude,
                           FALSE, filters, initialRegion, "searchArea")
            /\ initialRegion' = currentRegion
       ELSE UNCHANGED <<loading, issued, lastRadius, inflight, initialRegion>>
    /\ UNCHANGED <<location, errorMsg, stalls, currentRegion,
                   showSearchAreaButton, filters, mountPc>>
    /\ UNCHANGED filterVars
    /\ UNCHANGED listVars

(* The map's region before the user moves it: initialRegion, or the        *)
(* default on Singapore while there is no fix                               *)
mapRegion ==
    IF initialRegion # Null THEN initialRegion
    ELSE [latitude |-> DefaultMapLatitude,
          longitude |-> DefaultMapLongitude,
          latitudeDelta |-> DefaultMapDelta,
          longitudeDelta |-> DefaultMapDelta]

(* The Retry button, were it to fall back on the map's region when there   *)
(* is no location                                                          *)
RetryOnMapRegion ==
    /\ HomeView = "error"
    /\ screen = "none"
    /\ IF location # Null
       THEN fetchStalls(location.coords.latitude, location.coords.longitude,
                        TRUE, filters, initialRegion, "retry")
       ELSE fetchStalls(mapRegion.latitude, mapRegion.longitude,
                        TRUE, filters, initialRegion, "retry")
    /\ UNCHANGED <<location, errorMsg, stalls, initialRegion,
                   currentRegion, showSearchAreaButton, filters, mountPc>>
    /\ UNCHANGED filterVars
    /\ UNCHANGED listVars

(* The Retry button of the error view *)
Retry ==
    /\ HomeView = "error"
    /\ screen = "none"
    /\ IF location # Null
       THEN /\ fetchStalls(location.coords.latitude, location.coords.longitude,
                           TRUE, filters, initialRegion, "retry")
       ELSE UNCHANGED <<loading, issued, lastRadius, inflight>>
    /\ UNCHANGED <<location, errorMsg, stalls, initialRegion,
                   currentRegion, showSearchAreaButton, filters, mountPc>>
    /\ UNCHANGED filterVars
    /\ UNCHANGED listVars

----------------------------------------------------------------------------
(* FilterScreen *)

(* fetchFilterOptions up to its await *)
fetchFilterOptions ==
    /\ fsInflight < MaxFilterInflight
    /\ fsInflight' = fsInflight + 1

(* handleFilterPress: the filter screen mounts with the current filters and *)
(* its mount effect calls fetchFilterOptions                                *)
handleFilterPress ==
    /\ HomeView = "main"
    /\ screen = "none"
    /\ screen' = "open"
    /\ cuisineType' = filters.cuisine_type
    /\ priceRange' = filters.price_range
    /\ dietary' = filters.dietary
    /\ radius' = IF filters.radius # 0 THEN filters.radius ELSE DefaultRadius
    /\ filterOptions' = NoOptions
    /\ fsLoading' = TRUE
    /\ fsError' = NoString
    /\ fetchFilterOptions
    /\ UNCHANGED homeVars
    /\ UNCHANGED listVars

(* fetchFilterOptions after its await *)
FilterOptionsResponse(outcome) ==
    /\ screen # "none"
    /\ fsInflight > 0
    /\ fsInflight' = fsInflight - 1
    /\ IF outcome = "ok"
       THEN /\ filterOptions' =
                 [cuisine_types |-> <<"All">> \o ServedOptions.cuisine_types,
                  price_ranges |-> <<"All">> \o ServedOptions.price_ranges,
                  dietary_requirements |->
                      <<"All">> \o ServedOptions.dietary_requirements]
            /\ UNCHANGED fsError
       ELSE /\ fsError' = IF outcome = "network"
                          THEN "Network request failed"
                          ELSE "Failed to fetch filter options"
            /\ UNCHANGED filterOptions
    /\ fsLoading' = FALSE
    /\ UNCHANGED <<screen, cuisineType, priceRange, dietary, radius>>
    /\ UNCHANGED homeVars
    /\ UNCHANGED listVars

(* Which of the three returns of FilterScreen's render is on screen *)
FilterView ==
    IF fsLoading THEN "loading"
    ELSE IF fsError # NoString THEN "error"
    ELSE "main"

(* The form is rendered and on top of the navigation stack *)
FormMounted == screen = "open" /\ FilterView = "main"

(* The form is rendered.  While the stack navigator is removing the screen *)
(* the one input considered is a repeated press on Apply.                  *)
ApplyMounted == screen # "none" /\ FilterView = "main"

(* The Retry button of the filter screen's error view *)
FilterRetry ==
    /\ screen # "none"
    /\ FilterView = "error"
    /\ fetchFilterOptions
    /\ UNCHANGED <<screen, cuisineType, priceRange, dietary, radius,
                   filterOptions, fsLoading, fsError>>
    /\ UNCHANGED homeVars
    /\ UNCHANGED listVars

setCuisineType(type) ==
    /\ FormMounted
    /\ type \in Range(filterOptions.cuisine_types)
    /\ cuisineType' = type
    /\ UNCHANGED <<screen, priceRange, dietary, radius, filterOptions,
                   fsLoading, fsError, fsInflight>>
    /\ UNCHANGED homeVars
    /\ UNCHANGED listVars

setPriceRange(range) ==
    /\ FormMounted
    /\ range \in Range(filterOptions.price_ranges)
    /\ priceRange' = range
    /\ UNCHANGED <<screen, cuisineType, dietary, radius, filterOptions,
                   fsLoading, fsError, fsInflight>>
    /\ UNCHANGED homeVars
    /\ UNCHANGED listVars

setDietary(requirement) ==
    /\ FormMounted
    /\ requirement \in Range(filterOptions.dietary_requirements)
    /\ dietary' = requirement
    /\ UNCHANGED <<screen, cuisineType, priceRange, radius, filterOptions,
                   fsLoading, fsError, fsInflight>>
    /\ UNCHANGED homeVars
    /\ UNCHANGED listVars

(* The slider's onValueChange *)
setRadius(value) ==
    /\ FormMounted
    /\ value \in SliderValues
    /\ radius' = value
    /\ UNCHANGED <<screen, cuisineType, priceRange, dietary, filterOptions,
                   fsLoading, fsError, fsInflight>>
    /\ UNCHANGED homeVars
    /\ UNCHANGED listVars

(* resetFilters, were it to clear the radius as it clears the options *)
resetFiltersClearingRadius ==
    /\ FormMounted
    /\ cuisineType' = "All"
    /\ priceRange' = "All"
    /\ dietary' = "All"
    /\ radius' = 0
    /\ UNCHANGED <<screen, filterOptions, fsLoading, fsError, fsInflight>>
    /\ UNCHANGED homeVars
    /\ UNCHANGED listVars

resetFilters ==
    /\ FormMounted
    /\ cuisineType' = "All"
    /\ priceRange' = "All"
    /\ dietary' = "All"
    /\ radius' = DefaultRadius
    /\ UNCHANGED <<screen, filterOptions, fsLoading, fsError, fsInflight>>
    /\ UNCHANGED homeVars
    /\ UNCHANGED listVars

(* applyFilters, were the effect on [filters] to put the anchor back on the *)
(* location as the mount effect does                                        *)
applyFiltersReanchoring ==
    /\ ApplyMounted
    /\ LET newFilters ==
             [cuisine_type |-> IF cuisineType = "All" THEN NoString
                               ELSE cuisineType,
              price_range |-> IF priceRange = "All" THEN NoString
                              ELSE priceRange,
              dietary |-> IF dietary = "All" THEN NoString ELSE dietary,
              radius |-> radius]
       IN  /\ filters' = newFilters
           /\ IF location # Null
              THEN /\ fetchStalls(location.coords.latitude,
                                  location.coords.longitude, TRUE, newFilters,
                                  initialRegion, "filters")
                   /\ initialRegion' =
                        [latitude |-> location.coords.latitude,
                         longitude |-> location.coords.longitude,
                         latitudeDelta |-> InitialDelta,
                         longitudeDelta |-> InitialDelta]
              ELSE UNCHANGED <<loading, issued, lastRadius, inflight,
                               initialRegion>>
    /\ screen' = "closing"
    /\ UNCHANGED <<location, errorMsg, stalls,
                   currentRegion, showSearchAreaButton, mountPc>>
    /\ UNCHANGED <<cuisineType, priceRange, dietary, radius, filterOptions,
                   fsLoading, fsError, fsInflight>>
    /\ UNCHANGED listVars

(* applyFilters: onFilterChange(newFilters) is setFilters(newFilters), a    *)
(* new object each time, so HomeScreen renders again and its effect on      *)
(* [filters] runs with the new filters; navigation.goBack() starts the      *)
(* removal of the filter screen.                                            *)
applyFilters ==
    /\ ApplyMounted
    /\ LET newFilters ==
             [cuisine_type |-> IF cuisineType = "All" THEN NoString
                               ELSE cuisineType,
              price_range |-> IF priceRange = "All" THEN NoString
                              ELSE priceRange,
              dietary |-> IF dietary = "All" THEN NoString ELSE dietary,
              radius |-> radius]
       IN  /\ filters' = newFilters
           /\ IF location # Null
              THEN /\ fetchStalls(location.coords.latitude,
                                  location.coords.longitude, TRUE, newFilters,
                                  initialRegion, "filters")
              ELSE UNCHANGED <<loading, issued, lastRadius, inflight>>
    /\ screen' = "closing"
    /\ UNCHANGED <<location, errorMsg, stalls, initialRegion,
                   currentRegion, showSearchAreaButton, mountPc>>
    /\ UNCHANGED <<cuisineType, priceRange, dietary, radius, filterOptions,
                   fsLoading, fsError, fsInflight>>
    /\ UNCHANGED listVars

(* The header's back button: goBack() without applying *)
goBack ==
    /\ screen = "open"
    /\ screen' = "closing"
    /\ UNCHANGED <<cuisineType, priceRange, dietary, radius, filterOptions,
                   fsLoading, fsError, fsInflight>>
    /\ UNCHANGED homeVars
    /\ UNCHANGED listVars

(* The stack navigator removes the filter screen; its state is discarded    *)
(* and a pending fetchFilterOptions no longer has a component to update     *)
FilterScreenUnmount ==
    /\ screen = "closing"
    /\ screen' = "none"
    /\ cuisineType' = NoString
    /\ priceRange' = NoString
    /\ dietary' = NoString
    /\ radius' = DefaultRadius
    /\ filterOptions' = NoOptions
    /\ fsLoading' = TRUE
    /\ fsError' = NoString
    /\ fsInflight' = 0
    /\ UNCHANGED homeVars
    /\ UNCHANGED listVars

----------------------------------------------------------------------------

Next ==
    \/ \E status \in {"granted", "denied"} : PermissionAnswered(status)
    \/ \E coords \in Fixes : PositionObtained(coords)
    \/ PositionFailed
    \/ \E q \in inflight, outcome \in Outcomes : Response(q, outcome)
    \/ \E region \in Regions : handleRegionChange(region)
    \/ handleSearchAreaPress
    \/ Retry
    \/ handleFilterPress
    \/ \E outcome \in {"ok", "http_error", "network"} :
           FilterOptionsResponse(outcome)
    \/ FilterRetry
    \/ \E type \in Range(filterOptions.cuisine_types) : setCuisineType(type)
    \/ \E range \in Range(filterOptions.price_ranges) : setPriceRange(range)
    \/ \E requirement \in Range(filterOptions.dietary_requirements) :
           setDietary(requirement)
    \/ \E value \in SliderPicks : setRadius(value)
    \/ resetFilters
    \/ applyFilters
    \/ goBack
    \/ FilterScreenUnmount

Spec == Init /\ [][Next]_vars

(* The promises of the start-up sequence and of the requests settle: the    *)
(* permission prompt is answered, getCurrentPositionAsync resolves or       *)
(* rejects, and every fetch is answered or fails.                           *)
Fairness ==
    /\ WF_vars(\E status \in {"granted", "denied"} : PermissionAnswered(status))
    /\ WF_vars((\E coords \in Fixes : PositionObtained(coords))
                  \/ PositionFailed)
    /\ WF_vars(\E q \in inflight, outcome \in Outcomes : Response(q, outcome))

SpecLive == Init /\ [][Next]_vars /\ Fairness

----------------------------------------------------------------------------
(* The filter screen with every kind of option, from the state in which    *)
(* the first query was answered and the filter screen, opened on the        *)
(* default filters, has loaded FullOptions.                                 *)

(* HomeScreen once the query of the mount effect was answered with a list *)
FirstQueryAnswered ==
    /\ \E coords \in Fixes :
         /\ location = [coords |-> coords]
         /\ initialRegion = [latitude |-> coords.latitude,
                             longitude |-> coords.longitude,
                             latitudeDelta |-> InitialDelta,
                             longitudeDelta |-> InitialDelta]
         /\ currentRegion = initialRegion
    /\ errorMsg = NoString
    /\ stalls = [kind |-> "list", seq |-> 1]
    /\ loading = FALSE
    /\ showSearchAreaButton = FALSE
    /\ filters = [cuisine_type |-> NoString, price_range |-> NoString,
                  dietary |-> NoString, radius |-> DefaultRadius]
    /\ mountPc = "done"
    /\ issued = 1
    /\ lastRadius = DefaultRadius
    /\ inflight = {}

InitFilter ==
    /\ FirstQueryAnswered
    /\ screen = "open"
    /\ cuisineType = filters.cuisine_type
    /\ priceRange = filters.price_range
    /\ dietary = filters.dietary
    /\ radius = filters.radius
    /\ filterOptions =
         [cuisine_types |-> <<"All">> \o FullOptions.cuisine_types,
          price_ranges |-> <<"All">> \o FullOptions.price_ranges,
          dietary_requirements |->
              <<"All">> \o FullOptions.dietary_requirements]
    /\ fsLoading = FALSE
    /\ fsError = NoString
    /\ fsInflight = 0
    /\ itemPriceRange = JsUndefined
    /\ itemView = NotRendered

NextFilter ==
    \/ \E type \in Range(filterOptions.cuisine_types) : setCuisineType(type)
    \/ \E range \in Range(filterOptions.price_ranges) : setPriceRange(range)
    \/ \E requirement \in Range(filterOptions.dietary_requirements) :
           setDietary(requirement)
    \/ \E value \in SliderPicks : setRadius(value)
    \/ resetFilters
    \/ applyFilters
    \/ FilterScreenUnmount
    \/ \E q \in inflight, outcome \in Outcomes : Response(q, outcome)
    \/ Retry
    \/ handleFilterPress
    \/ \E outcome \in {"ok", "http_error", "network"} :
           FilterOptionsResponse(outcome)

SpecFilter == InitFilter /\ [][NextFilter]_vars

----------------------------------------------------------------------------
(* The filter screen with the whole slider, from the same state: the        *)
(* screen is opened, the slider moved, Reset and Apply pressed, in any      *)
(* order.                                                                   *)

NextSlider ==
    \/ \E value \in SliderValues : setRadius(value)
    \/ resetFilters
    \/ applyFilters
    \/ FilterScreenUnmount
    \/ \E q \in inflight, outcome \in Outcomes : Response(q, outcome)
    \/ handleFilterPress
    \/ \E outcome \in {"ok", "http_error", "network"} :
           FilterOptionsResponse(outcome)

SpecSlider == InitFilter /\ [][NextSlider]_vars

----------------------------------------------------------------------------
(* The list view rendering one item of the list the first query returned,   *)
(* for every price range the item can carry.                                *)

InitPrice ==
    /\ FirstQueryAnswered
    /\ screen = "none"
    /\ cuisineType = NoString
    /\ priceRange = NoString
    /\ dietary = NoString
    /\ radius = DefaultRadius
    /\ filterOptions = NoOptions
    /\ fsLoading = TRUE
    /\ fsError = NoString
    /\ fsInflight = 0
    /\ itemPriceRange \in PriceRanges
    /\ itemView = NotRendered

NextPrice == renderStallItem

SpecPrice == InitPrice /\ [][NextPrice]_vars

----------------------------------------------------------------------------
(* The map moved around the anchor, for a device near the origin or about   *)
(* 45 degrees north of it, after the latest query, made with any radius of  *)
(* the slider, was answered with a list.                                    *)

GeoFixes == {[latitude |-> lat, longitude |-> 0] : lat \in {0, 100000}}

(* The regions the map can report: every 250 m north of the device and     *)
(* 50 m beyond, or 1 km or 5 km away to the north or south, and on its      *)
(* meridian or 15 km east of it                                             *)
DriftRegions(center) ==
    {[latitude |-> center.latitude + dLat,
      longitude |-> center.longitude + dLon,
      latitudeDelta |-> InitialDelta,
      longitudeDelta |-> InitialDelta] :
        dLat \in {5 * k + beyond : k \in 0..MaxDriftSteps, beyond \in {0, 1}}
                   \cup {-100, -20, 100},
        dLon \in {0, 300}}

InitDrift ==
    /\ \E coords \in GeoFixes :
         /\ location = [coords |-> coords]
         /\ initialRegion = [latitude |-> coords.latitude,
                             longitude |-> coords.longitude,
                             latitudeDelta |-> InitialDelta,
                             longitudeDelta |-> InitialDelta]
         /\ currentRegion = initialRegion
    /\ errorMsg = NoString
    /\ \E value \in SliderValues :
         /\ filters = [cuisine_type |-> NoString, price_range |-> NoString,
                       dietary |-> NoString, radius |-> value]
         /\ lastRadius = value
         /\ issued = IF value = DefaultRadius THEN 1 ELSE 2
    /\ stalls = [kind |-> "list", seq |-> issued]
    /\ loading = FALSE
    /\ showSearchAreaButton = FALSE
    /\ mountPc = "done"
    /\ inflight = {}
    /\ screen = "none"
    /\ cuisineType = NoString
    /\ priceRange = NoString
    /\ dietary = NoString
    /\ radius = DefaultRadius
    /\ filterOptions = NoOptions
    /\ fsLoading = TRUE
    /\ fsError = NoString
    /\ fsInflight = 0
    /\ itemPriceRange = JsUndefined
    /\ itemView = NotRendered

NextDrift ==
    \E region \in DriftRegions(location.coords) : handleRegionChange(region)

SpecDrift == InitDrift /\ [][NextDrift]_vars

----------------------------------------------------------------------------
(* The home screen with the map zoomed in and out, around the device or     *)
(* 1500 m north of it: from the mount, or from the first answer to a query  *)
(* made with the least or the default radius of the slider; every request   *)
(* is answered with a list.                                                 *)

Spans == {2} \cup {12 * k : k \in 1..MaxSpanSteps}

(* The viewports of every span that are centered where center is *)
ViewportsAt(center) ==
    {[latitude |-> center.latitude,
      longitude |-> center.longitude,
      latitudeDelta |-> latitudeDelta,
      longitudeDelta |-> longitudeDelta] :
        latitudeDelta \in Spans, longitudeDelta \in Spans}

(* Where the map is centered before the user pans it *)
ViewCenter ==
    IF location = Null
    THEN [latitude |-> DefaultMapLatitude, longitude |-> DefaultMapLongitude]
    ELSE location.coords

(* The regions the map can report: around the device, or 1500 m north *)
ViewRegions ==
    UNION {ViewportsAt([latitude |-> ViewCenter.latitude + dLat,
                        longitude |-> ViewCenter.longitude]) : dLat \in {0, 30}}

NextViewport ==
    \/ \E status \in {"granted", "denied"} : PermissionAnswered(status)
    \/ \E coords \in Fixes : PositionObtained(coords)
    \/ PositionFailed
    \/ \E q \in inflight : Response(q, "ok")
    \/ \E region \in ViewRegions : handleRegionChange(region)
    \/ handleSearchAreaPress

InitViewport ==
    \/ Init
    \/ /\ InitDrift
       /\ location.coords \in Fixes
       /\ filters.radius \in {SliderMin, DefaultRadius}

SpecViewport == InitViewport /\ [][NextViewport]_vars

----------------------------------------------------------------------------
(* The terms of the specification *)

(* The session states of section 4.4 *)
Idle == initialRegion = Null
AwaitingRefresh == showSearchAreaButton
Anchored == initialRegion # Null /\ ~showSearchAreaButton

(* hasDrifted(anchor, viewport) of section 4.3, with driftFactor 0.5: the   *)
(* distance of the two centers exceeds half the anchor's radius             *)
hasDrifted(center, radiusM, viewport) ==
    LET dLat == viewport.latitude - center.latitude
        dLon == viewport.longitude - center.longitude
    IN  4 * MetresPerUnit * MetresPerUnit * (dLat * dLat + dLon * dLon)
          > radiusM * radiusM

(* requiredRadiusKm(viewport) of section 4.3, in metres: twice the distance *)
(* from the center to the corner, rounded up to a multiple of 500 m and     *)
(* at least 1000 m                                                          *)
requiredRadiusKm(viewport) ==
    LET halfLat == viewport.latitudeSpan \div 2
        halfLon == viewport.longitudeSpan \div 2
        cornerSq == MetresPerUnit * MetresPerUnit
                      * (halfLat * halfLat + halfLon * halfLon)
        halves == CHOOSE n \in 0..100 :
                    /\ 4 * cornerSq <= (500 * n) * (500 * n)
                    /\ \A m \in 0..(n - 1) :
                         4 * cornerSq > (500 * m) * (500 * m)
    IN  IF 500 * halves < 1000 THEN 1000 ELSE 500 * halves

(* The Viewport of section 3 that a map region stands for *)
Viewport(region) ==
    [latitude |-> region.latitude, longitude |-> region.longitude,
     latitudeSpan |-> region.latitudeDelta,
     longitudeSpan |-> region.longitudeDelta]

(* The anchor center: the center of the region the last search was run on *)
AnchorCenter(region) ==
    IF region = Null THEN Null
    ELSE [latitude |-> region.latitude, longitude |-> region.longitude]

(* The request sent by the step, if the step sent one *)
Sent(q) == q \in inflight' /\ q.seq = issued + 1 /\ issued' = issued + 1

(* A list obtained from the backend is on screen *)
StallsPresented == HomeView = "main"

----------------------------------------------------------------------------
(* Properties *)

(* C1: a response replaces the displayed result list only if it belongs to  *)
(* the most recently issued query (last-write-wins).                        *)
C1_LastWriteWins ==
    [][stalls' # stalls => stalls'.seq = issued']_vars

(* C2: a query that fails (the request is rejected or its body cannot be    *)
(* read) leaves the displayed result list and the anchor exactly as they    *)
(* were before the query was issued, and an error is surfaced.              *)
C2_FailedQueryLeavesListAndAnchor ==
    [][\A q \in inflight : \A outcome \in FailureOutcomes :
         Response(q, outcome) =>
           /\ stalls' = q.stallsBefore
           /\ AnchorCenter(initialRegion') = AnchorCenter(q.anchorBefore)
           /\ errorMsg' # NoString]_vars

(* C3: a search answered with a non-2xx status never replaces the displayed *)
(* result list, and an error is surfaced.                                   *)
C3_Non2xxIsFailure ==
    [][\A q \in inflight : \A outcome \in {"http_json", "http_nonjson"} :
         Response(q, outcome) =>
           /\ stalls' = stalls
           /\ errorMsg' # NoString]_vars

(* C4: after a query failure the result list that was displayed before the  *)
(* failure is still presented.                                              *)
C4_PriorResultsStayVisible ==
    [][\A q \in inflight : \A outcome \in FailureOutcomes :
         (Response(q, outcome) /\ stalls.kind = "list") =>
           /\ stalls' = stalls
           /\ StallsPresented']_vars

(* C5: a filter change applied while a location fix exists issues a query   *)
(* centered on the current anchor center with radius filters.radiusKm.      *)
C5_FilterChangeQueriesAnchor ==
    [][(applyFilters /\ location # Null) =>
         \E q \in inflight' :
           /\ Sent(q)
           /\ q.latitude = AnchorCenter(initialRegion).latitude
           /\ q.longitude = AnchorCenter(initialRegion).longitude
           /\ q.radius = filters'.radius]_vars

(* C6: search-this-area with a current viewport issues a query centered on  *)
(* the viewport center with radius requiredRadiusKm(viewport), and the      *)
(* anchor becomes that viewport center.                                     *)
C6_SearchAreaQueriesViewport ==
    [][(handleSearchAreaPress /\ currentRegion # Null) =>
         /\ \E q \in inflight' :
              /\ Sent(q)
              /\ q.latitude = currentRegion.latitude
              /\ q.longitude = currentRegion.longitude
              /\ q.radius = requiredRadiusKm(Viewport(currentRegion))
         /\ AnchorCenter(initialRegion') = AnchorCenter(currentRegion)]_vars

(* C6 witness: a search-this-area request is pending, centered away from    *)
(* the location fix on what is now the anchor, with a radius that is not    *)
(* filters.radius                                                           *)
C6_Witness ==
    \E q \in inflight :
      /\ q.by = "searchArea"
      /\ q.seq = issued
      /\ q.latitude # location.coords.latitude
      /\ q.latitude = initialRegion.latitude
      /\ q.radius # filters.radius
      /\ q.radius = requiredRadiusKm(Viewport(currentRegion))

(* C7: whatever the outcome of the query a search-this-area issued, the     *)
(* AwaitingRefresh flag is cleared once that query has settled.             *)
C7_SearchAreaClearsAwaitingRefresh ==
    [][\A q \in inflight : \A outcome \in Outcomes :
         (q.by = "searchArea" /\ Response(q, outcome)) =>
           ~AwaitingRefresh']_vars

(* C8: in Anchored, a viewport-change event whose viewport has drifted from *)
(* the anchor moves the session to AwaitingRefresh in that same event.      *)
C8_DriftDecidedOnEventViewport ==
    [][\A region \in Regions :
         (/\ Anchored
          /\ handleRegionChange(region)
          /\ hasDrifted(initialRegion, lastRadius, region)) =>
           AwaitingRefresh']_vars

(* C9: a viewport-change event issues no query and leaves the result list,  *)
(* the anchor and the filters unchanged, and panning back to where          *)
(* hasDrifted is false returns AwaitingRefresh to Anchored.                 *)
C9_ViewportChangeFrame ==
    [][\A region \in Regions :
         handleRegionChange(region) =>
           /\ issued' = issued
           /\ inflight' = inflight
           /\ stalls' = stalls
           /\ AnchorCenter(initialRegion') = AnchorCenter(initialRegion)
           /\ filters' = filters
           /\ (AwaitingRefresh
                 /\ ~hasDrifted(initialRegion, lastRadius, region)
               => Anchored')]_vars

(* C10: drift is judged against half the radius of the most recently        *)
(* executed query, also when that radius came from the viewport.            *)
C10_DriftUsesAnchorRadius ==
    (initialRegion # Null /\ currentRegion # Null) =>
       (isOutsideSearchRadius
          <=> hasDrifted(initialRegion, lastRadius, currentRegion))

(* C11: the first successful location fix takes the session out of Idle:    *)
(* exactly one query is issued, centered on the fix with radius             *)
(* filters.radius, and the anchor is set to the fix coordinate.             *)
C11_FirstFixLeavesIdle ==
    [][\A coords \in Fixes :
         PositionObtained(coords) =>
           /\ Idle
           /\ ~Idle'
           /\ issued' = issued + 1
           /\ Cardinality(inflight' \ inflight) = 1
           /\ \E q \in inflight' :
                /\ Sent(q)
                /\ q.latitude = coords.latitude
                /\ q.longitude = coords.longitude
                /\ q.radius = filters.radius
           /\ AnchorCenter(initialRegion') = coords]_vars

(* C11 witness: the fix has been delivered, its one query is pending and    *)
(* the anchor is on the fix                                                 *)
C11_Witness ==
    /\ mountPc = "done"
    /\ issued = 1
    /\ AnchorCenter(initialRegion) = location.coords
    /\ \E q \in inflight :
         /\ q.by = "mount"
         /\ q.latitude = location.coords.latitude
         /\ q.radius = filters.radius

(* C12: no location is fabricated: while no fix has been obtained no        *)
(* operation has issued a stall query, and a query that is not a search of  *)
(* the area on the map is centered on the fix, never on the default map     *)
(* center.                                                                  *)
C12_NoFabricatedLocation ==
    /\ location = Null => (issued = 0 /\ inflight = {})
    /\ \A q \in inflight :
         q.by # "searchArea" =>
           [latitude |-> q.latitude, longitude |-> q.longitude]
             = location.coords

(* C12 witness: permission was denied, the error view with its Retry button *)
(* is on screen, there is no location and no query has been issued          *)
C12_Witness ==
    /\ mountPc = "denied"
    /\ HomeView = "error"
    /\ screen = "none"
    /\ location = Null
    /\ initialRegion = Null
    /\ issued = 0

(* The options a /filters response can carry: none of them is "All"         *)
RealOptions ==
    Range(FullOptions.cuisine_types) \cup Range(FullOptions.price_ranges)
      \cup Range(FullOptions.dietary_requirements)

(* The URL parameter the specification asks for a filter *)
SpecParam(filter) ==
    IF filter \in {NoString, "All", ""} THEN Omitted ELSE filter

(* C13: every issued query carries latitude, longitude and radius, and      *)
(* carries a cuisine, price or dietary parameter only when that filter is   *)
(* set to a real option: a filter that is null or chosen as "All" is        *)
(* omitted, never sent as "All" or as an empty or null string.              *)
C13_OnlyRealOptionsSent ==
    \A q \in inflight :
      /\ q.latitude \in Int
      /\ q.longitude \in Int
      /\ q.radius \in Int
      /\ \A param \in {q.cuisine_type, q.price_range, q.dietary} :
           param = Omitted \/ param \in RealOptions
      /\ q.seq = issued =>
           /\ q.cuisine_type = SpecParam(filters.cuisine_type)
           /\ q.price_range = SpecParam(filters.price_range)
           /\ q.dietary = SpecParam(filters.dietary)

(* C13 witness: Apply was pressed with the cuisine chosen as "All", a real  *)
(* price option and the dietary filter left null; the query it issued is    *)
(* pending and carries the price only                                       *)
C13_Witness ==
    /\ screen = "closing"
    /\ cuisineType = "All"
    /\ priceRange \in RealOptions
    /\ dietary = NoString
    /\ \E q \in inflight :
         /\ q.seq = issued
         /\ q.by = "filters"
         /\ q.cuisine_type = Omitted
         /\ q.price_range = priceRange
         /\ q.dietary = Omitted

(* C14: the radius of the session's filters, and the radius shown by the    *)
(* slider, is a multiple of 0.5 km within [0.5, 5.0] km in every state      *)
(* reached by opening the filter screen, moving the slider, Reset and       *)
(* Apply.                                                                   *)
C14_RadiusWithinSlider ==
    /\ filters.radius \in SliderValues
    /\ radius \in SliderValues
    /\ filters.radius >= SliderMin /\ filters.radius <= SliderMax
    /\ filters.radius % SliderStep = 0

(* C14 witness: the slider was moved to its maximum and applied, the filter *)
(* screen was opened again, and Reset was pressed                           *)
C14_Witness ==
    /\ filters.radius = SliderMax
    /\ issued > 1
    /\ FormMounted
    /\ cuisineType = "All"
    /\ radius = DefaultRadius

(* C15: a filter change never relocates the anchor: the anchor center is    *)
(* the same before and after the filter change is handled, and before and   *)
(* after the response to its query is handled, whatever the response.       *)
C15_FilterChangeKeepsAnchor ==
    [][/\ applyFilters =>
            AnchorCenter(initialRegion') = AnchorCenter(initialRegion)
       /\ \A q \in inflight : \A outcome \in Outcomes :
            (q.by = "filters" /\ Response(q, outcome)) =>
              AnchorCenter(initialRegion') = AnchorCenter(initialRegion)]_vars

(* C15 witness: the anchor was moved off the location by a search of the    *)
(* area, then the filters were changed; the query of the filter change is   *)
(* pending and the anchor is where it was                                   *)
C15_Witness ==
    \E q \in inflight :
      /\ q.by = "filters"
      /\ q.seq = issued
      /\ AnchorCenter(initialRegion) # location.coords
      /\ AnchorCenter(initialRegion) = AnchorCenter(q.anchorBefore)

(* C16: a filter change made in AwaitingRefresh clears AwaitingRefresh:     *)
(* once its query has settled, whatever the outcome, the session is         *)
(* Anchored and the affordance to search again is hidden.  (The map is not  *)
(* on screen from the filter change until a list arrives or, after a       *)
(* failure, ever again: a query that settles in AwaitingRefresh with the    *)
(* list of its issue still set was issued in AwaitingRefresh.)              *)
C16_FilterChangeClearsAwaitingRefresh ==
    [][\A q \in inflight : \A outcome \in Outcomes :
         (/\ q.by = "filters"
          /\ q.stallsBefore = stalls
          /\ AwaitingRefresh
          /\ Response(q, outcome)) =>
           Anchored']_vars

(* The price classifier of section 4.2.  A token is missing when it is      *)
(* null, undefined, empty or "Unknown"; its numeric parts are the two sides *)
(* of the first "-", or the token without its trailing "+", or the token.   *)
SpecMissing(token) ==
    \/ token \in {JsNull, JsUndefined}
    \/ token = JsString(<<>>)
    \/ token = JsString(UnknownText)

SpecParts(chars) ==
    IF includes(chars, "-")
    THEN LET i == indexOf(chars, "-")
         IN  <<SubSeq(chars, 1, i - 1), SubSeq(chars, i + 1, Len(chars))>>
    ELSE IF includes(chars, "+")
    THEN IF chars[Len(chars)] = "+"
         THEN <<SubSeq(chars, 1, Len(chars) - 1)>>
         ELSE <<chars>>
    ELSE <<chars>>

SpecIsInteger(chars) ==
    chars # <<>> /\ \A i \in 1..Len(chars) : IsDigit(chars[i])

SpecUnparsable(chars) ==
    \E k \in 1..Len(SpecParts(chars)) : ~SpecIsInteger(SpecParts(chars)[k])

(* The integer a numeric part is the numeral of *)
SpecValue(chars) == CHOOSE v \in Prices : Numeral(v) = chars

(* Twice the midpoint of a parsable token *)
SpecTwiceMidpoint(chars) ==
    LET parts == SpecParts(chars)
    IN  IF Len(parts) = 2 THEN SpecValue(parts[1]) + SpecValue(parts[2])
        ELSE 2 * SpecValue(parts[1])

SpecSymbol(twiceMidpoint) ==
    IF twiceMidpoint < 10 THEN "$"
    ELSE IF twiceMidpoint < 30 THEN "$$"
    ELSE IF twiceMidpoint < 50 THEN "$$$"
    ELSE "$$$$"

(* C17: a price token whose numeric part does not parse as an integer       *)
(* ("abc", "x-y", "-5", "+") is classified as unknown: it is shown without  *)
(* a dollar symbol, never with that of a priced tier.                       *)
C17_UnparsableIsUnknown ==
    (/\ itemView.rendered
     /\ ~SpecMissing(itemPriceRange)
     /\ SpecUnparsable(itemPriceRange.chars)) =>
       itemView.priceIndicator = NoString

(* C18: the symbol of a parsable price token is that of its midpoint        *)
(* ((min + max) / 2 for "min-max", v for "v+" and for a bare number):       *)
(* "$" below 5, "$$" from 5 and below 15, "$$$" from 15 and below 25,       *)
(* "$$$$" from 25.                                                          *)
C18_SymbolOfMidpoint ==
    (/\ itemView.rendered
     /\ ~SpecMissing(itemPriceRange)
     /\ ~SpecUnparsable(itemPriceRange.chars)) =>
       itemView.priceIndicator
         = SpecSymbol(SpecTwiceMidpoint(itemPriceRange.chars))

(* C18 witness: "10-20", whose midpoint is the limit 15, is shown as "$$$"  *)
C18_Witness ==
    /\ itemPriceRange = JsString(<<"1", "0", "-", "2", "0">>)
    /\ itemView.rendered
    /\ itemView.priceIndicator = "$$$"

(* C19: a price token that is null, undefined, empty or "Unknown" is        *)
(* classified as unknown: the label is "Price: Unknown" and there is no     *)
(* dollar symbol.                                                           *)
C19_MissingIsUnknown ==
    (itemView.rendered /\ SpecMissing(itemPriceRange)) =>
       /\ itemView.priceText = PriceUnknownText
       /\ itemView.priceIndicator = NoString

(* C19 witness: the empty string has been rendered as "Price: Unknown"      *)
C19_Witness ==
    /\ itemPriceRange = JsString(<<>>)
    /\ itemView.rendered
    /\ itemView.priceText = PriceUnknownText
    /\ itemView.priceIndicator = NoString

(* C20: for a price token that is not null, empty or "Unknown", whichever   *)
(* of the three shapes it has, the label is "Budget: $" followed by the     *)
(* token as it was given.                                                   *)
C20_LabelEchoesToken ==
    (itemView.rendered /\ ~SpecMissing(itemPriceRange)) =>
       itemView.priceText = BudgetText \o itemPriceRange.chars

(* C20 witness: "30+" has been rendered with the label "Budget: $30+" and   *)
(* the symbol of the highest tier                                           *)
C20_Witness ==
    /\ itemPriceRange = JsString(<<"3", "0", "+">>)
    /\ itemView.rendered
    /\ itemView.priceText
         = <<"B", "u", "d", "g", "e", "t", ":", " ", "$", "3", "0", "+">>
    /\ itemView.priceIndicator = "$$$$"

(* C23: distanceKm is symmetric: the distance from the anchor center to the *)
(* viewport center is the distance from the viewport center to the anchor   *)
(* center.                                                                  *)
C23_DistanceSymmetric ==
    calculateDistance(initialRegion.latitude, initialRegion.longitude,
                      currentRegion.latitude, currentRegion.longitude)
      = calculateDistance(currentRegion.latitude, currentRegion.longitude,
                          initialRegion.latitude, initialRegion.longitude)

(* C23 witness: far from the equator the map was moved 5 km north and       *)
(* 15 km east, where the cosines of the two latitudes differ, and the       *)
(* distance was taken on the next event                                     *)
C23_Witness ==
    /\ currentRegion.latitude = initialRegion.latitude + 100
    /\ currentRegion.longitude = initialRegion.longitude + 300
    /\ cos(currentRegion.latitude) # cos(initialRegion.latitude)
    /\ isOutsideSearchRadius
    /\ showSearchAreaButton

(* C24: hasDrifted is false when the viewport center is the anchor center,  *)
(* whatever the radius, and false when the distance is exactly half the     *)
(* radius the check is made with; it is true for any greater distance.      *)
C24_DriftStrict ==
    LET dLat == currentRegion.latitude - initialRegion.latitude
        dLon == currentRegion.longitude - initialRegion.longitude
        distance == calculateDistance(
                        initialRegion.latitude, initialRegion.longitude,
                        currentRegion.latitude, currentRegion.longitude)
    IN  /\ (dLat = 0 /\ dLon = 0) => ~isOutsideSearchRadius
        /\ (dLon = 0 /\ 2 * MetresPerUnit * dLat = filters.radius) =>
              ~isOutsideSearchRadius
        /\ 2 * distance > filters.radius => isOutsideSearchRadius

(* C24 witness: the viewport center is exactly half the radius north of the *)
(* anchor center, the map is moved on from there, and the affordance is     *)
(* not shown                                                                *)
C24_Witness ==
    /\ currentRegion.longitude = initialRegion.longitude
    /\ 2 * MetresPerUnit * (currentRegion.latitude - initialRegion.latitude)
         = filters.radius
    /\ filters.radius # DefaultRadius
    /\ ~isOutsideSearchRadius
    /\ ~showSearchAreaButton

(* The distance from the center of a viewport to its corner, in metres *)
CornerDistance(viewport) ==
    calculateDistance(viewport.latitude, viewport.longitude,
                      viewport.latitude + viewport.latitudeDelta \div 2,
                      viewport.longitude + viewport.longitudeDelta \div 2)

(* C21: requiredRadiusKm is a multiple of 0.5 km and at least 1 km in every *)
(* state, the states with no viewport recorded included, and so is the      *)
(* radius of every query made for the visible area.                         *)
C21_RequiredRadiusOnGrid ==
    /\ calculateRequiredRadius % 500 = 0
    /\ calculateRequiredRadius >= 1000
    /\ \A q \in inflight :
         q.by = "searchArea" => q.radius % 500 = 0 /\ q.radius >= 1000

(* C21 witness: the slider was set to 0.5 km and applied, the map was       *)
(* zoomed in until its corner is less than 250 m from its center, and a     *)
(* query for the visible area is pending with the minimum of 1 km           *)
C21_Witness ==
    /\ filters.radius = SliderMin
    /\ currentRegion # Null
    /\ 2 * CornerDistance(currentRegion) < 500
    /\ \E q \in inflight : q.by = "searchArea" /\ q.radius = 1000

(* C22: for a fixed center, a viewport whose corner is at least as far from *)
(* the center as the corner of the current viewport never gets a smaller    *)
(* radius than the current viewport.                                        *)
C22_RequiredRadiusMonotone ==
    currentRegion # Null =>
        \A viewport \in ViewportsAt(currentRegion) :
            CornerDistance(viewport) >= CornerDistance(currentRegion) =>
                calculateRequiredRadiusOf(viewport, filters)
                    >= calculateRequiredRadius

(* C22 witness: the current viewport is tall and narrow, and a wide and     *)
(* short viewport with a farther corner gets a greater radius               *)
C22_Witness ==
    /\ currentRegion # Null
    /\ currentRegion.latitudeDelta > currentRegion.longitudeDelta
    /\ \E viewport \in ViewportsAt(currentRegion) :
         /\ viewport.latitudeDelta < currentRegion.latitudeDelta
         /\ CornerDistance(viewport) > CornerDistance(currentRegion)
         /\ calculateRequiredRadiusOf(viewport, filters)
              > calculateRequiredRadius
    /\ \E q \in inflight : q.by = "searchArea"

(* C25: a stall query in flight does not block other interaction: while a   *)
(* query is outstanding and nothing has failed, the map and the footer of   *)
(* the home screen are mounted, so that viewport-change, filter-change and  *)
(* search-this-area events can be delivered.                                *)
C25_QueryDoesNotBlock ==
    (inflight # {} /\ screen = "none" /\ errorMsg = NoString) => MapMounted

(* C26: the error of the home screen is retryable: when a stall query has   *)
(* failed and a later query succeeds, the error message is cleared and the  *)
(* screen shows the results, not the error view.                            *)
C26_ErrorRetryable ==
    [][\A q \in inflight :
          (errorMsg = FailedMsg /\ inflight = {q} /\ Response(q, "ok")) =>
              (errorMsg' = NoString /\ HomeView' = "main")]_vars

(* C27: the re-search affordance is never shown without an anchor: when     *)
(* showSearchAreaButton is true an anchor and a current viewport exist, and *)
(* no step leads from Idle to AwaitingRefresh.                              *)
C27_AffordanceNeedsAnchor ==
    /\ [](showSearchAreaButton =>
            (initialRegion # Null /\ currentRegion # Null))
    /\ [][Idle => ~AwaitingRefresh']_vars

(* C27 witness: the affordance is shown, with an anchor and with a viewport *)
(* that is outside the search radius                                        *)
C27_Witness ==
    /\ AwaitingRefresh
    /\ ~Idle
    /\ currentRegion # Null
    /\ isOutsideSearchRadius

(* C28: the loading indicator is on whenever at least one stall query is in *)
(* flight.                                                                  *)
C28_LoadingWhileInFlight == inflight # {} => loading

(* C29: after the home screen mounts, the loading state is eventually left, *)
(* whatever the outcome of the start-up sequence.                           *)
C29_LoadingEventuallyLeft == <>(~loading)

(* C30: the error of the filter screen is retryable: when loading the       *)
(* options has failed and a later Retry succeeds, the error is cleared and  *)
(* the option lists, each starting with "All", are displayed instead of the *)
(* error view.                                                              *)
C30_FilterErrorRetryable ==
    [][(fsError # NoString /\ FilterOptionsResponse("ok")) =>
          /\ fsError' = NoString
          /\ FilterView' = "main"
          /\ filterOptions'.cuisine_types[1] = "All"
          /\ filterOptions'.price_ranges[1] = "All"
          /\ filterOptions'.dietary_requirements[1] = "All"]_vars

====
